---- MODULE Spec2Model ----
(***************************************************************************)
(* Model of the Voynich API client (docs/voynich_api_client.py), its       *)
(* command-line interface and the example workflow                         *)
(* (docs/example_api_usage.py).                                            *)
(*                                                                         *)
(* Text is a sequence of tokens: the token "/" is the slash character,     *)
(* every other token is a slash-free piece of text.  HTTP method names are *)
(* sequences of single letters.                                            *)
(***************************************************************************)
EXTENDS Integers, Sequences, FiniteSets, TLC

VARIABLES client, log, stdout, last, pc, args, ret, exit, page_id,
          annotation_id

vars == <<client, log, stdout, last, pc, args, ret, exit, page_id,
          annotation_id>>

(***************************************************************************)
(* Bounds of the model: the number of calls a library user makes, and the  *)
(* number of trailing slashes of a base URL.                               *)
(***************************************************************************)
MaxCalls == 1
MaxTrailing == 1

(***************************************************************************)
(* Python values.                                                          *)
(***************************************************************************)
None == [none |-> TRUE]
SomeStr(s) == [none |-> FALSE, s |-> s]
SomeDict(d) == [none |-> FALSE, d |-> d]

\* Python truthiness of an Optional[str] / Optional[Dict] argument.
Truthy(o) ==
    IF o.none THEN FALSE
    ELSE IF "s" \in DOMAIN o THEN o.s # ""
    ELSE o.d # << >>

\* str.rstrip('/')
RECURSIVE rstrip(_)
rstrip(s) ==
    IF s # << >> /\ s[Len(s)] = "/" THEN rstrip(SubSeq(s, 1, Len(s) - 1))
    ELSE s

\* str.lstrip('/')
RECURSIVE lstrip(_)
lstrip(s) ==
    IF s # << >> /\ s[1] = "/" THEN lstrip(Tail(s))
    ELSE s

\* str.upper() on a sequence of letters
UpperChar(c) ==
    CASE c = "g" -> "G" [] c = "e" -> "E" [] c = "t" -> "T"
      [] c = "p" -> "P" [] c = "o" -> "O" [] c = "s" -> "S"
      [] c = "u" -> "U" [] OTHER -> c

upper(s) == [i \in 1..Len(s) |-> UpperChar(s[i])]

\* decimal rendering of an integer inside an f-string
Digit(d) ==
    CASE d = 0 -> "0" [] d = 1 -> "1" [] d = 2 -> "2" [] d = 3 -> "3"
      [] d = 4 -> "4" [] d = 5 -> "5" [] d = 6 -> "6" [] d = 7 -> "7"
      [] d = 8 -> "8" [] d = 9 -> "9"

RECURSIVE str(_)
str(n) ==
    IF n < 0 THEN <<"-">> \o str(0 - n)
    ELSE IF n < 10 THEN <<Digit(n)>>
    ELSE str(n \div 10) \o <<Digit(n % 10)>>

(***************************************************************************)
(* JSON documents and response bodies.  A document is an object with the   *)
(* optional members "data" and "error"; keys lists the members present.    *)
(***************************************************************************)
NoData == [type |-> "absent", keys |-> {}, id |-> 0, folioNumber |-> "", len |-> 0]
DataObj(ks, i, f) ==
    [type |-> "object", keys |-> ks, id |-> i, folioNumber |-> f,
     len |-> Cardinality(ks)]
DataArr(n) == [type |-> "array", keys |-> {}, id |-> 0, folioNumber |-> "", len |-> n]
DataNull == [type |-> "null", keys |-> {}, id |-> 0, folioNumber |-> "", len |-> 0]

Json(ks, d, e) == [keys |-> ks, data |-> d, error |-> e]

NoJson == Json({}, NoData, "")

\* response.json(): the document a body text parses to, if any.
IsJsonText(text) ==
    text \in {"{data:{id:1,folioNumber:1r}}", "{data:{id:42}}", "{data:[]}",
              "{data:null}", "{}", "{error:not found}"}

ParseJson(text) ==
    CASE text = "{data:{id:1,folioNumber:1r}}" ->
            Json({"data"}, DataObj({"id", "folioNumber"}, 1, "1r"), "")
      [] text = "{data:{id:42}}" -> Json({"data"}, DataObj({"id"}, 42, ""), "")
      [] text = "{data:[]}" -> Json({"data"}, DataArr(0), "")
      [] text = "{data:null}" -> Json({"data"}, DataNull, "")
      [] text = "{}" -> Json({}, NoData, "")
      [] text = "{error:not found}" -> Json({"error"}, NoData, "not found")
      [] OTHER -> NoJson

\* json.dumps(value, indent=2) as text tokens
dumps(j) ==
    <<"{">>
    \o (IF "data" \in j.keys
           THEN <<"data", j.data.type>>
                \o (IF "id" \in j.data.keys THEN <<"id">> \o str(j.data.id) ELSE << >>)
                \o (IF "folioNumber" \in j.data.keys
                       THEN <<"folioNumber", j.data.folioNumber>> ELSE << >>)
           ELSE << >>)
    \o (IF "error" \in j.keys THEN <<"error", j.error>> ELSE << >>)
    \o <<"}">>

(***************************************************************************)
(* What the transport does with one request: it fails, or it delivers a    *)
(* response with a status, a reason phrase and a body text.                *)
(***************************************************************************)
TransportFailure == [kind |-> "failure", status |-> 0, reason |-> "", text |-> ""]
Response(st, rs, tx) == [kind |-> "response", status |-> st, reason |-> rs, text |-> tx]

Outcomes ==
    { TransportFailure,
      Response(200, "OK", "{data:{id:1,folioNumber:1r}}"),
      Response(201, "Created", "{data:{id:42}}"),
      Response(200, "OK", "{data:[]}"),
      Response(200, "OK", "{data:null}"),
      Response(200, "OK", "{}"),
      Response(200, "OK", "<html>"),
      Response(300, "Multiple Choices", "{}"),
      Response(404, "Not Found", "{error:not found}"),
      Response(500, "Internal Server Error", "<html>") }

(***************************************************************************)
(* Results of a call: a returned value or a raised exception, with the     *)
(* requests the call issued and the lines it printed.                      *)
(***************************************************************************)
Return(v, reqs, lines) ==
    [raised |-> "", msg |-> << >>, value |-> v, requests |-> reqs,
     printed |-> lines]

Raise(type, m, reqs, lines) ==
    [raised |-> type, msg |-> m, value |-> NoJson, requests |-> reqs,
     printed |-> lines]

NoResult == Return(NoJson, << >>, << >>)

\* Response.raise_for_status(): the HTTPError message, or << >> if none
http_error_msg(resp, url) ==
    IF 400 <= resp.status /\ resp.status < 500
        THEN str(resp.status) \o <<" Client Error: ", resp.reason, " for url: ">> \o url
    ELSE IF 500 <= resp.status /\ resp.status < 600
        THEN str(resp.status) \o <<" Server Error: ", resp.reason, " for url: ">> \o url
    ELSE << >>

(***************************************************************************)
(* VoynichApiClient                                                        *)
(***************************************************************************)
NoClient == [base_url |-> << >>, api_key |-> "", headers |-> << >>]

\* variant: the base URL is stored as given
VoynichApiClient_NoStrip(base_url, api_key) ==
    [base_url |-> base_url,
     api_key |-> api_key,
     headers |-> [Authorization |-> <<"Bearer ", api_key>>,
                  ContentType |-> "application/json"]]

VoynichApiClient(base_url, api_key) ==
    [base_url |-> rstrip(base_url),
     api_key |-> api_key,
     headers |-> [Authorization |-> <<"Bearer ", api_key>>,
                  ContentType |-> "application/json"]]

\* the target URL of a request
RequestUrl(self, endpoint) ==
    self.base_url \o <<"/", "api", "/", "external", "/">> \o lstrip(endpoint)

\* requests.get(url, headers=..., params=params)
HttpGet(url, headers, params) ==
    [verb |-> "GET", url |-> url, headers |-> headers, params |-> params,
     json |-> None]

\* requests.post(url, headers=..., json=data)
HttpPost(url, headers, data) ==
    [verb |-> "POST", url |-> url, headers |-> headers, params |-> None,
     json |-> data]

\* variant: the response of a failed request is not printed
ErrorLines_NoDetails(m, has_response, resp) ==
    << <<"API request error: ">> \o m >>

\* the except-branch of _make_request for a RequestException e
ErrorLines(m, has_response, resp) ==
    << <<"API request error: ">> \o m >>
    \o (IF has_response
           THEN IF IsJsonText(resp.text)
                   THEN << <<"Error details: ">> \o dumps(ParseJson(resp.text)) >>
                   ELSE << <<"Status code: ">> \o str(resp.status),
                           <<"Response body: ", resp.text>> >>
           ELSE << >>)

\* variant: a request whose transport failed is sent a second time
HandleResponse_Retry(req, outcome) ==
    IF outcome.kind = "failure"
        THEN Raise("ConnectionError", <<"connection failed">>, <<req, req>>,
                   << <<"API request error: ", "connection failed">> >>)
    ELSE IF http_error_msg(outcome, req.url) # << >>
        THEN Raise("HTTPError", http_error_msg(outcome, req.url), <<req>>, << >>)
    ELSE IF ~IsJsonText(outcome.text)
        THEN Raise("JSONDecodeError", <<"Expecting value">>, <<req>>, << >>)
    ELSE Return(ParseJson(outcome.text), <<req>>, << >>)

\* the part of _make_request after the request was sent
HandleResponse(req, outcome) ==
    IF outcome.kind = "failure"
        THEN Raise("ConnectionError", <<"connection failed">>, <<req>>,
                   ErrorLines(<<"connection failed">>, FALSE, outcome))
    ELSE IF http_error_msg(outcome, req.url) # << >>
        THEN Raise("HTTPError", http_error_msg(outcome, req.url), <<req>>,
                   ErrorLines(http_error_msg(outcome, req.url), TRUE, outcome))
    ELSE IF ~IsJsonText(outcome.text)
        THEN Raise("JSONDecodeError", <<"Expecting value">>, <<req>>,
                   ErrorLines(<<"Expecting value">>, FALSE, outcome))
    ELSE Return(ParseJson(outcome.text), <<req>>, << >>)

GET == <<"G", "E", "T">>
POST == <<"P", "O", "S", "T">>

\* variant: a method that is not POST is sent as GET
_make_request_DefaultGet(self, method, endpoint, params, data, outcome) ==
    IF upper(method) = <<"P", "O", "S", "T">>
        THEN HandleResponse(HttpPost(RequestUrl(self, endpoint), self.headers, data),
                            outcome)
    ELSE HandleResponse(HttpGet(RequestUrl(self, endpoint), self.headers, params),
                        outcome)

_make_request(self, method, endpoint, params, data, outcome) ==
    LET url == RequestUrl(self, endpoint) IN
    IF upper(method) = GET
        THEN HandleResponse(HttpGet(url, self.headers, params), outcome)
    ELSE IF upper(method) = POST
        THEN HandleResponse(HttpPost(url, self.headers, data), outcome)
    ELSE Raise("ValueError", <<"Unsupported HTTP method: ">> \o method, << >>, << >>)

\* variant: offset and limit change places
list_pages_Swapped(self, offset, limit, outcome) ==
    _make_request(self, GET, <<"pages">>, [offset |-> limit, limit |-> offset],
                  None, outcome)

list_pages(self, offset, limit, outcome) ==
    _make_request(self, GET, <<"pages">>, [offset |-> offset, limit |-> limit],
                  None, outcome)

get_page(self, id, outcome) ==
    _make_request(self, GET, <<"pages", "/">> \o str(id), None, None, outcome)

list_symbols(self, id, outcome) ==
    _make_request(self, GET, <<"symbols", "/", "page", "/">> \o str(id), None,
                  None, outcome)

create_symbol(self, id, x, y, width, height, category, metadata, outcome) ==
    LET base == [pageId |-> id, x |-> x, y |-> y, width |-> width,
                 height |-> height]
        withCat == IF Truthy(category)
                      THEN [k \in DOMAIN base \cup {"category"} |->
                              IF k = "category" THEN category.s ELSE base[k]]
                      ELSE base
        data == IF Truthy(metadata)
                   THEN [k \in DOMAIN withCat \cup {"metadata"} |->
                           IF k = "metadata" THEN metadata.d ELSE withCat[k]]
                   ELSE withCat
    IN _make_request(self, POST, <<"symbols">>, None, data, outcome)

list_annotations(self, id, outcome) ==
    _make_request(self, GET, <<"annotations", "/", "page", "/">> \o str(id),
                  None, None, outcome)

create_annotation(self, id, x, y, width, height, content, is_public, outcome) ==
    _make_request(self, POST, <<"annotations">>, None,
                  [pageId |-> id, x |-> x, y |-> y, width |-> width,
                   height |-> height, content |-> content,
                   isPublic |-> is_public], outcome)

\* variant: the vote type is not validated
vote_on_annotation_Unchecked(self, id, vote_type, outcome) ==
    _make_request(self, POST,
                  <<"annotations", "/">> \o str(id) \o <<"/", "vote">>,
                  None, [voteType |-> vote_type], outcome)

vote_on_annotation(self, id, vote_type, outcome) ==
    IF vote_type \notin {"upvote", "downvote"}
        THEN Raise("ValueError", <<"Vote type must be 'upvote' or 'downvote'">>,
                   << >>, << >>)
    ELSE _make_request(self, POST,
                       <<"annotations", "/">> \o str(id) \o <<"/", "vote">>,
                       None, [voteType |-> vote_type], outcome)

get_activity_feed(self, limit, offset, outcome) ==
    _make_request(self, GET, <<"activity-feed">>,
                  [limit |-> limit, offset |-> offset], None, outcome)

valid_timeframes == {"daily", "weekly", "monthly", "alltime"}

\* variant: the timeframe is not validated
get_leaderboard_Unchecked(self, timeframe, outcome) ==
    _make_request(self, GET, <<"leaderboard">>, [timeframe |-> timeframe],
                  None, outcome)

get_leaderboard(self, timeframe, outcome) ==
    IF timeframe \notin valid_timeframes
        THEN Raise("ValueError", <<"Timeframe must be one of: ">>, << >>, << >>)
    ELSE _make_request(self, GET, <<"leaderboard">>, [timeframe |-> timeframe],
                       None, outcome)

get_usage(self, outcome) ==
    _make_request(self, GET, <<"usage">>, None, None, outcome)

(***************************************************************************)
(* Inputs.                                                                 *)
(***************************************************************************)
Omitted == [given |-> FALSE]
Arg(v) == [given |-> TRUE, v |-> v]

\* the value of a parameter: the argument, or the default of the signature
Default(a, d) == IF a.given THEN a.v ELSE d

\* the default base URL of the command line
DefaultBaseUrl == <<"http:", "/", "/", "localhost:3000">>

Slashes(n) == [i \in 1..n |-> "/"]

\* base URLs with up to MaxTrailing trailing slashes
BaseUrls == {b \o Slashes(n) : b \in {DefaultBaseUrl, << >>}, n \in 0..MaxTrailing}

ApiKeys == {"key"}
PageIds == {1, 999}
VoteTypes == {"upvote", "downvote", "Upvote", ""}
Timeframes == {"daily", "weekly", "monthly", "alltime", "yearly", ""}
Methods == {<<"g", "e", "t">>, <<"P", "o", "s", "t">>, <<"P", "U", "T">>,
            <<"G", "E", "T", "S">>, << >>}
Endpoints == {<<"usage">>, <<"/", "usage">>}
Categories == {None, SomeStr(""), SomeStr("herbal")}
Metadatas == {None, SomeDict(<< >>), SomeDict([k |-> "v"])}

\* the outcomes drawn for a single call of a library user or of the command line
CallOutcomes ==
    { TransportFailure,
      Response(200, "OK", "{data:{id:1,folioNumber:1r}}"),
      Response(200, "OK", "<html>"),
      Response(404, "Not Found", "{error:not found}"),
      Response(500, "Internal Server Error", "<html>") }

(***************************************************************************)
(* Calls.  last is the latest call of a client method: the method, its     *)
(* arguments, what the transport did, and the result.                      *)
(***************************************************************************)
NotSent == [kind |-> "none", status |-> 0, reason |-> "", text |-> ""]

NoCall == [op |-> "none", n |-> 0, arg |-> << >>, outcome |-> NotSent,
           res |-> NoResult]

\* a call site: the method named op applied to the arguments in arg, an
\* argument left out taking the default of the method's signature
Invoke(self, op, arg, o) ==
    CASE op = "list_pages" ->
            list_pages(self, Default(arg.offset, 0), Default(arg.limit, 20), o)
      [] op = "get_page" -> get_page(self, arg.page_id, o)
      [] op = "list_symbols" -> list_symbols(self, arg.page_id, o)
      [] op = "create_symbol" ->
            create_symbol(self, arg.page_id, arg.x, arg.y, arg.width, arg.height,
                          arg.category, arg.metadata, o)
      [] op = "list_annotations" -> list_annotations(self, arg.page_id, o)
      [] op = "create_annotation" ->
            create_annotation(self, arg.page_id, arg.x, arg.y, arg.width,
                              arg.height, arg.content,
                              Default(arg.is_public, TRUE), o)
      [] op = "vote_on_annotation" ->
            vote_on_annotation(self, arg.annotation_id, arg.vote_type, o)
      [] op = "get_activity_feed" ->
            get_activity_feed(self, Default(arg.limit, 20), Default(arg.offset, 0), o)
      [] op = "get_leaderboard" ->
            get_leaderboard(self, Default(arg.timeframe, "weekly"), o)
      [] op = "get_usage" -> get_usage(self, o)
      [] op = "_make_request" ->
            _make_request(self, arg.method, arg.endpoint, None, None, o)

\* the effects of a finished call with result res: the call is recorded and
\* the requests it issued have gone out
Call(op, arg, o, res) ==
    /\ last' = [op |-> op, n |-> last.n + 1, arg |-> arg,
                outcome |-> IF res.requests = << >> THEN NotSent ELSE o,
                res |-> res]
    /\ log' = log \o res.requests

(***************************************************************************)
(* Library use: a program constructs a client and calls its methods.       *)
(***************************************************************************)
Called(op, arg, o) ==
    /\ last.n < MaxCalls
    /\ Call(op, arg, o, Invoke(client, op, arg, o))
    /\ UNCHANGED <<client, stdout, pc, args, ret, exit, page_id, annotation_id>>

InitLib ==
    /\ args \in [base_url : BaseUrls, api_key : ApiKeys]
    /\ client = VoynichApiClient(args.base_url, args.api_key)
    /\ log = << >>
    /\ stdout = << >>
    /\ last = NoCall
    /\ pc = "lib"
    /\ ret = None
    /\ exit = -1
    /\ page_id = 0
    /\ annotation_id = 0

ListPages ==
    /\ pc = "lib"
    /\ \E offset \in {Omitted, Arg(10)}, limit \in {Omitted, Arg(5)}, o \in CallOutcomes :
         Called("list_pages", [offset |-> offset, limit |-> limit], o)

GetPage ==
    /\ pc = "lib"
    /\ \E id \in PageIds, o \in CallOutcomes :
         Called("get_page", [page_id |-> id], o)

ListSymbols ==
    /\ pc = "lib"
    /\ \E o \in CallOutcomes :
         Called("list_symbols", [page_id |-> 1], o)

CreateSymbol ==
    /\ pc = "lib"
    /\ \E category \in Categories, metadata \in Metadatas, o \in CallOutcomes :
         Called("create_symbol",
                [page_id |-> 1, x |-> 200, y |-> 300, width |-> 100, height |-> 80,
                 category |-> category, metadata |-> metadata], o)

ListAnnotations ==
    /\ pc = "lib"
    /\ \E o \in CallOutcomes :
         Called("list_annotations", [page_id |-> 1], o)

CreateAnnotation ==
    /\ pc = "lib"
    /\ \E is_public \in {Omitted, Arg(FALSE)}, o \in CallOutcomes :
         Called("create_annotation",
                [page_id |-> 1, x |-> 200, y |-> 300, width |-> 100, height |-> 80,
                 content |-> "note", is_public |-> is_public], o)

VoteOnAnnotation ==
    /\ pc = "lib"
    /\ \E vote_type \in VoteTypes, o \in CallOutcomes :
         Called("vote_on_annotation",
                [annotation_id |-> 42, vote_type |-> vote_type], o)

GetActivityFeed ==
    /\ pc = "lib"
    /\ \E limit \in {Omitted, Arg(5)}, o \in CallOutcomes :
         Called("get_activity_feed", [limit |-> limit, offset |-> Omitted], o)

GetLeaderboard ==
    /\ pc = "lib"
    /\ \E timeframe \in {Omitted} \cup {Arg(t) : t \in Timeframes}, o \in CallOutcomes :
         Called("get_leaderboard", [timeframe |-> timeframe], o)

GetUsage ==
    /\ pc = "lib"
    /\ \E o \in CallOutcomes :
         Called("get_usage", << >>, o)

MakeRequest ==
    /\ pc = "lib"
    /\ \E method \in Methods, endpoint \in Endpoints, o \in CallOutcomes :
         Called("_make_request", [method |-> method, endpoint |-> endpoint], o)

(***************************************************************************)
(* The command line of voynich_api_client.py.  args holds the command line *)
(* and the environment the process was started with.                       *)
(***************************************************************************)
Commands == {"list-pages", "get-page", "list-symbols", "create-symbol",
             "list-annotations", "create-annotation", "vote", "activity",
             "leaderboard", "usage"}

RetInt(n) == [none |-> FALSE, v |-> n]

\* sys.exit(value): the exit status of the process
sys_exit(value) == IF value.none THEN 0 ELSE value.v

\* default=os.environ.get(name, fallback) of an option, overridden by its flag
Resolve(flag, env, fallback) ==
    IF flag.given THEN flag.v ELSE Default(env, fallback)

\* the choices=[...] restrictions of the vote and leaderboard subcommands
ChoicesOk(a) ==
    /\ a.command = "vote" => a.type \in {"upvote", "downvote"}
    /\ a.command = "leaderboard" =>
           Default(a.timeframe, "weekly") \in {"daily", "weekly", "monthly", "alltime"}

\* parser.parse_args(): the namespace main() works with
parse_args(a) ==
    [command |-> a.command,
     base_url |-> Resolve(a.flag_base_url, a.env_base_url, DefaultBaseUrl),
     api_key |-> Resolve(a.flag_api_key, a.env_api_key, ""),
     id |-> a.id,
     type |-> a.type,
     timeframe |-> Default(a.timeframe, "weekly"),
     offset |-> Default(a.offset, 0),
     limit |-> Default(a.limit, 20),
     category |-> a.category,
     metadata |-> None,
     public |-> TRUE]

CommandLines ==
    { a \in [command : Commands \cup {""},
             flag_base_url : {Omitted, Arg(DefaultBaseUrl \o <<"/">>)},
             env_base_url : {Omitted},
             flag_api_key : {Omitted, Arg("flagkey")},
             env_api_key : {Omitted, Arg(""), Arg("envkey")},
             id : {1, 999},
             type : {"upvote", "downvote", "sideways"},
             timeframe : {Omitted, Arg("alltime"), Arg("yearly")},
             offset : {Omitted, Arg(10)},
             limit : {Omitted},
             category : {None, SomeStr("herbal")}] :
        /\ a.command \notin {"get-page", "list-symbols", "list-annotations", "vote"}
               => a.id = 1
        /\ a.command # "vote" => a.type = "upvote"
        /\ a.command # "leaderboard" => a.timeframe = Omitted
        /\ a.command # "list-pages" => a.offset = Omitted
        /\ a.command # "create-symbol" => a.category = None
        /\ a.command = "" => a.flag_base_url = Omitted }

\* the command dispatch inside the try block of main(): the method called
\* for the subcommand, and its arguments
CommandCall(ns) ==
    CASE ns.command = "list-pages" ->
            [op |-> "list_pages",
             arg |-> [offset |-> Arg(ns.offset), limit |-> Arg(ns.limit)]]
      [] ns.command = "get-page" -> [op |-> "get_page", arg |-> [page_id |-> ns.id]]
      [] ns.command = "list-symbols" ->
            [op |-> "list_symbols", arg |-> [page_id |-> ns.id]]
      [] ns.command = "create-symbol" ->
            [op |-> "create_symbol",
             arg |-> [page_id |-> ns.id, x |-> 200, y |-> 300, width |-> 100,
                      height |-> 80, category |-> ns.category,
                      metadata |-> ns.metadata]]
      [] ns.command = "list-annotations" ->
            [op |-> "list_annotations", arg |-> [page_id |-> ns.id]]
      [] ns.command = "create-annotation" ->
            [op |-> "create_annotation",
             arg |-> [page_id |-> ns.id, x |-> 200, y |-> 300, width |-> 100,
                      height |-> 80, content |-> "note",
                      is_public |-> Arg(ns.public)]]
      [] ns.command = "vote" ->
            [op |-> "vote_on_annotation",
             arg |-> [annotation_id |-> ns.id, vote_type |-> ns.type]]
      [] ns.command = "activity" ->
            [op |-> "get_activity_feed",
             arg |-> [limit |-> Arg(ns.limit), offset |-> Arg(ns.offset)]]
      [] ns.command = "leaderboard" ->
            [op |-> "get_leaderboard", arg |-> [timeframe |-> Arg(ns.timeframe)]]
      [] ns.command = "usage" -> [op |-> "get_usage", arg |-> << >>]

\* format_json_output(result)
format_json_output(data) == dumps(data)

ApiKeyRequired ==
    <<"Error: API key is required. Provide it with --api-key or set the VOYNICH_API_KEY environment variable.">>

InitCli ==
    /\ args \in CommandLines
    /\ client = NoClient
    /\ log = << >>
    /\ stdout = << >>
    /\ last = NoCall
    /\ pc = "cli_main"
    /\ ret = None
    /\ exit = -1
    /\ page_id = 0
    /\ annotation_id = 0

\* parse_args() rejects a value outside the choices of an option: exit 2
CliUsageError ==
    /\ pc = "cli_main"
    /\ ~ChoicesOk(args)
    /\ pc' = "cli_exited"
    /\ exit' = 2
    /\ UNCHANGED <<client, log, stdout, last, args, ret, page_id, annotation_id>>

\* main() without a subcommand: print the help and return
CliNoCommand ==
    /\ pc = "cli_main"
    /\ ChoicesOk(args)
    /\ parse_args(args).command = ""
    /\ stdout' = Append(stdout, <<"usage:">>)
    /\ ret' = None
    /\ pc' = "cli_returned"
    /\ UNCHANGED <<client, log, last, args, exit, page_id, annotation_id>>

\* the value main() returns when the API key is empty
NoApiKeyReturn == None

\* main() with a subcommand and an empty API key
CliNoApiKey ==
    /\ pc = "cli_main"
    /\ ChoicesOk(args)
    /\ parse_args(args).command # ""
    /\ parse_args(args).api_key = ""
    /\ stdout' = Append(stdout, ApiKeyRequired)
    /\ ret' = NoApiKeyReturn
    /\ pc' = "cli_returned"
    /\ UNCHANGED <<client, log, last, args, exit, page_id, annotation_id>>

\* variant: main() returns 0 whether or not the command raised
CommandReturn_Zero(res) == RetInt(0)

\* the value main() returns after the try block
CommandReturn(res) == IF res.raised # "" THEN RetInt(1) ELSE RetInt(0)

\* main() with a subcommand and an API key: construct the client, run the
\* command, print the result or the error
CliRunCommand ==
    /\ pc = "cli_main"
    /\ ChoicesOk(args)
    /\ parse_args(args).command # ""
    /\ parse_args(args).api_key # ""
    /\ \E o \in CallOutcomes :
         LET ns == parse_args(args)
             c == VoynichApiClient(ns.base_url, ns.api_key)
             cmd == CommandCall(ns)
             res == Invoke(c, cmd.op, cmd.arg, o)
         IN /\ client' = c
            /\ Call(cmd.op, cmd.arg, o, res)
            /\ stdout' = stdout \o res.printed
                         \o (IF res.raised # ""
                                THEN << <<"Error: ">> \o res.msg >>
                                ELSE << format_json_output(res.value) >>)
            /\ ret' = CommandReturn(res)
    /\ pc' = "cli_returned"
    /\ UNCHANGED <<args, exit, page_id, annotation_id>>

\* sys.exit(main())
CliExit ==
    /\ pc = "cli_returned"
    /\ exit' = sys_exit(ret)
    /\ pc' = "cli_exited"
    /\ UNCHANGED <<client, log, stdout, last, args, ret, page_id, annotation_id>>

(***************************************************************************)
(* The example workflow of example_api_usage.py.                           *)
(***************************************************************************)
\* print_section(title)
print_section(title) == << <<"\n", "=">>, <<"  ", title>>, <<"=">> >>

\* print_json(data)
print_json(data) == << dumps(data) >>

\* the exception raised by j['data'][key], "" if there is none
SubscriptError(j, key) ==
    IF "data" \notin j.keys THEN "KeyError"
    ELSE IF j.data.type # "object" THEN "TypeError"
    ELSE IF key \notin j.data.keys THEN "KeyError"
    ELSE ""

\* the exception raised by len(j.get('data', [])), "" if there is none
LenError(j) ==
    IF "data" \in j.keys /\ j.data.type = "null" THEN "TypeError" ELSE ""

\* len(j.get('data', []))
DataLen(j) == IF "data" \in j.keys THEN j.data.len ELSE 0

\* the exception raised by symbols[:2], "" if there is none
SliceError(j) ==
    IF "data" \in j.keys /\ j.data.type = "object" THEN "TypeError" ELSE ""

ExampleLines ==
    [flag_base_url : {Omitted, Arg(DefaultBaseUrl \o <<"/">>)},
     env_base_url : {Omitted},
     flag_api_key : {Omitted, Arg("flagkey")},
     env_api_key : {Omitted, Arg(""), Arg("envkey")}]

\* parser.parse_args() of the example
example_parse_args(a) ==
    [api_key |-> Resolve(a.flag_api_key, a.env_api_key, ""),
     base_url |-> Resolve(a.flag_base_url, a.env_base_url, DefaultBaseUrl)]

InitExample ==
    /\ args \in ExampleLines
    /\ client = NoClient
    /\ log = << >>
    /\ stdout = << >>
    /\ last = NoCall
    /\ pc = "main"
    /\ ret = None
    /\ exit = -1
    /\ page_id = 0
    /\ annotation_id = 0

\* variant: the outer handler reports the error and the result stays 0
Abort_ReturnZero(lines, m) ==
    /\ stdout' = stdout \o lines
                 \o << <<"\nERROR: ">> \o m,
                       <<"\nExample workflow did not complete successfully.">> >>
    /\ ret' = RetInt(0)
    /\ pc' = "returned"

\* the outer except-branch of run_example: report and return 1
Abort(lines, m) ==
    /\ stdout' = stdout \o lines
                 \o << <<"\nERROR: ">> \o m,
                       <<"\nExample workflow did not complete successfully.">> >>
    /\ ret' = RetInt(1)
    /\ pc' = "returned"

\* variant: after a failed annotation step the activity feed is skipped
Tolerate_SkipFeed(lines, m) ==
    /\ stdout' = stdout \o lines
                 \o << <<"Error creating or upvoting annotation: ">> \o m >>
    /\ ret' = ret
    /\ pc' = "step5"

\* the inner except-branch around the annotation step: report and go on
Tolerate(lines, m) ==
    /\ stdout' = stdout \o lines
                 \o << <<"Error creating or upvoting annotation: ">> \o m >>
    /\ ret' = ret
    /\ pc' = "step4"

\* main() of the example with an empty API key
ExNoApiKey ==
    /\ pc = "main"
    /\ example_parse_args(args).api_key = ""
    /\ stdout' = Append(stdout, ApiKeyRequired)
    /\ ret' = RetInt(1)
    /\ pc' = "returned"
    /\ UNCHANGED <<client, log, last, args, exit, page_id, annotation_id>>

\* main() calls run_example, which constructs the client
ExBegin ==
    /\ pc = "main"
    /\ example_parse_args(args).api_key # ""
    /\ client' = VoynichApiClient(example_parse_args(args).base_url,
                                  example_parse_args(args).api_key)
    /\ pc' = "step1"
    /\ UNCHANGED <<log, stdout, last, args, ret, exit, page_id, annotation_id>>

\* step 1: get page 1 and read its id and folio number
ExGetPage ==
    /\ pc = "step1"
    /\ \E o \in Outcomes :
         LET arg == [page_id |-> 1]
             res == get_page(client, 1, o)
             head == print_section("STEP 1: Retrieving a manuscript page")
                     \o << <<"Fetching manuscript page with ID 1...">> >>
                     \o res.printed
             shown == head \o << <<"Retrieved page data:">> >>
                      \o print_json(res.value)
             err == IF SubscriptError(res.value, "id") # ""
                       THEN SubscriptError(res.value, "id")
                       ELSE SubscriptError(res.value, "folioNumber")
         IN /\ Call("get_page", arg, o, res)
            /\ IF res.raised # ""
                  THEN Abort(head, res.msg) /\ UNCHANGED page_id
               ELSE IF err # ""
                  THEN Abort(shown, <<err>>) /\ UNCHANGED page_id
               ELSE /\ page_id' = res.value.data.id
                    /\ stdout' = stdout \o shown
                                 \o << <<"\nWorking with page ID ">>
                                       \o str(res.value.data.id)
                                       \o <<" (Folio ", res.value.data.folioNumber, ")">> >>
                    /\ pc' = "step2"
                    /\ UNCHANGED ret
    /\ UNCHANGED <<client, args, exit, annotation_id>>

\* step 2: list the symbols of the page
ExListSymbols ==
    /\ pc = "step2"
    /\ \E o \in Outcomes :
         LET arg == [page_id |-> page_id]
             res == list_symbols(client, page_id, o)
             head == print_section("STEP 2: Retrieving symbols for the page")
                     \o << <<"Fetching symbols for page ID ">> \o str(page_id) >>
                     \o res.printed
             err == IF LenError(res.value) # "" THEN LenError(res.value)
                    ELSE IF DataLen(res.value) > 0 THEN SliceError(res.value)
                    ELSE ""
             found == head \o << <<"Found ">> \o str(DataLen(res.value))
                                 \o <<" symbols">> >>
         IN /\ Call("list_symbols", arg, o, res)
            /\ IF res.raised # ""
                  THEN Abort(head, res.msg)
               ELSE IF err # ""
                  THEN Abort(IF LenError(res.value) # "" THEN head ELSE found, <<err>>)
               ELSE /\ stdout' = stdout \o found
                    /\ pc' = "step3"
                    /\ UNCHANGED ret
    /\ UNCHANGED <<client, args, exit, page_id, annotation_id>>

AnnotationContent == "This area contains what appears to be a characteristic plant drawing"

\* step 3: create an annotation on the page, inside the inner try block
ExCreateAnnotation ==
    /\ pc = "step3"
    /\ \E o \in Outcomes :
         LET arg == [page_id |-> page_id, x |-> 200, y |-> 300, width |-> 100,
                     height |-> 80, content |-> AnnotationContent,
                     is_public |-> Arg(TRUE)]
             res == create_annotation(client, page_id, 200, 300, 100, 80,
                                      AnnotationContent, TRUE, o)
             head == print_section("STEP 3: Creating an annotation")
                     \o << <<"Creating annotation at coordinates">> >>
                     \o res.printed
             shown == head \o << <<"Annotation created successfully:">> >>
                      \o print_json(res.value)
             err == SubscriptError(res.value, "id")
         IN /\ Call("create_annotation", arg, o, res)
            /\ IF res.raised # ""
                  THEN Tolerate(head, res.msg) /\ UNCHANGED annotation_id
               ELSE IF err # ""
                  THEN Tolerate(shown, <<err>>) /\ UNCHANGED annotation_id
               ELSE /\ annotation_id' = res.value.data.id
                    /\ stdout' = stdout \o shown
                                 \o << <<"\nCreated annotation with ID: ">>
                                       \o str(res.value.data.id) >>
                    /\ pc' = "step3b"
                    /\ UNCHANGED ret
    /\ UNCHANGED <<client, args, exit, page_id>>

\* step 3b: upvote the annotation just created, inside the inner try block
ExVote ==
    /\ pc = "step3b"
    /\ \E o \in Outcomes :
         LET arg == [annotation_id |-> annotation_id, vote_type |-> "upvote"]
             res == vote_on_annotation(client, annotation_id, "upvote", o)
             head == << <<"\nUpvoting the annotation...">> >> \o res.printed
         IN /\ Call("vote_on_annotation", arg, o, res)
            /\ IF res.raised # ""
                  THEN Tolerate(head, res.msg)
               ELSE /\ stdout' = stdout \o head \o << <<"Upvote successful:">> >>
                                 \o print_json(res.value)
                    /\ pc' = "step4"
                    /\ UNCHANGED ret
    /\ UNCHANGED <<client, args, exit, page_id, annotation_id>>

\* step 4: get the five latest activities
ExActivityFeed ==
    /\ pc = "step4"
    /\ \E o \in Outcomes :
         LET arg == [limit |-> Arg(5), offset |-> Omitted]
             res == get_activity_feed(client, 5, 0, o)
             head == print_section("STEP 4: Retrieving activity feed")
                     \o << <<"Fetching the latest platform activity...">> >>
                     \o res.printed
         IN /\ Call("get_activity_feed", arg, o, res)
            /\ IF res.raised # ""
                  THEN Abort(head, res.msg)
               ELSE IF LenError(res.value) # ""
                  THEN Abort(head, <<LenError(res.value)>>)
               ELSE /\ stdout' = stdout \o head
                                 \o << <<"Retrieved ">> \o str(DataLen(res.value))
                                       \o <<" recent activities:">> >>
                    /\ pc' = "step5"
                    /\ UNCHANGED ret
    /\ UNCHANGED <<client, args, exit, page_id, annotation_id>>

\* step 5: get the weekly leaderboard
ExLeaderboard ==
    /\ pc = "step5"
    /\ \E o \in Outcomes :
         LET arg == [timeframe |-> Arg("weekly")]
             res == get_leaderboard(client, "weekly", o)
             head == print_section("STEP 5: Retrieving leaderboard data")
                     \o << <<"Fetching weekly leaderboard...">> >>
                     \o res.printed
         IN /\ Call("get_leaderboard", arg, o, res)
            /\ IF res.raised # ""
                  THEN Abort(head, res.msg)
               ELSE /\ stdout' = stdout \o head
                                 \o << <<"Weekly leaderboard data:">> >>
                                 \o print_json(res.value)
                    /\ pc' = "step6"
                    /\ UNCHANGED ret
    /\ UNCHANGED <<client, args, exit, page_id, annotation_id>>

\* step 6: get the usage statistics and finish
ExUsage ==
    /\ pc = "step6"
    /\ \E o \in Outcomes :
         LET res == get_usage(client, o)
             head == print_section("STEP 6: Checking API usage statistics")
                     \o << <<"Fetching API usage statistics...">> >>
                     \o res.printed
         IN /\ Call("get_usage", << >>, o, res)
            /\ IF res.raised # ""
                  THEN Abort(head, res.msg)
               ELSE /\ stdout' = stdout \o head
                                 \o << <<"API usage statistics:">> >>
                                 \o print_json(res.value)
                                 \o print_section("EXAMPLE WORKFLOW COMPLETED SUCCESSFULLY")
                    /\ ret' = RetInt(0)
                    /\ pc' = "returned"
    /\ UNCHANGED <<client, args, exit, page_id, annotation_id>>

\* sys.exit(main()) of the example
ExExit ==
    /\ pc = "returned"
    /\ exit' = sys_exit(ret)
    /\ pc' = "exited"
    /\ UNCHANGED <<client, log, stdout, last, args, ret, page_id, annotation_id>>

(***************************************************************************)
(* The three programs: a library user, the client's command line and the   *)
(* example workflow.                                                       *)
(***************************************************************************)
Init == InitLib \/ InitCli \/ InitExample

Next ==
    \/ ListPages
    \/ GetPage
    \/ ListSymbols
    \/ CreateSymbol
    \/ ListAnnotations
    \/ CreateAnnotation
    \/ VoteOnAnnotation
    \/ GetActivityFeed
    \/ GetLeaderboard
    \/ GetUsage
    \/ MakeRequest
    \/ CliUsageError
    \/ CliNoCommand
    \/ CliNoApiKey
    \/ CliRunCommand
    \/ CliExit
    \/ ExNoApiKey
    \/ ExBegin
    \/ ExGetPage
    \/ ExListSymbols
    \/ ExCreateAnnotation
    \/ ExVote
    \/ ExActivityFeed
    \/ ExLeaderboard
    \/ ExUsage
    \/ ExExit

Spec == Init /\ [][Next]_vars

(***************************************************************************)
(* Properties.                                                             *)
(***************************************************************************)
ApiPrefix == <<"/", "api", "/", "external", "/">>

\* the decimal digits of the ids that occur
IdText(n) ==
    CASE n = 1 -> <<"1">>
      [] n = 42 -> <<"4", "2">>
      [] n = 999 -> <<"9", "9", "9">>

Includes(text, token) == \E i \in 1..Len(text) : text[i] = token

\* a step that is a call of a client method
NewCall == last'.n = last.n + 1

\* the timeframe a leaderboard call asks for
AskedTimeframe(c) == IF c.arg.timeframe.given THEN c.arg.timeframe.v ELSE "weekly"

\* the call passes the parameter validation of its method
PassesValidation(c) ==
    CASE c.op = "vote_on_annotation" -> c.arg.vote_type \in {"upvote", "downvote"}
      [] c.op = "get_leaderboard" ->
            AskedTimeframe(c) \in {"daily", "weekly", "monthly", "alltime"}
      [] c.op = "_make_request" ->
            c.arg.method \in {<<"g", "e", "t">>, <<"P", "o", "s", "t">>}
      [] OTHER -> TRUE

\* C1: a vote with vote type upvote or downvote passes validation and issues
\* one POST to annotations/{id}/vote with body {voteType: vote_type}; a vote
\* with any other vote type raises ValueError and issues no request.
C1_VoteValidation ==
    [][(NewCall /\ last'.op = "vote_on_annotation") =>
          IF last'.arg.vote_type \in {"upvote", "downvote"}
             THEN /\ last'.res.raised # "ValueError"
                  /\ log' = Append(log,
                         [verb |-> "POST",
                          url |-> client'.base_url \o ApiPrefix
                                  \o <<"annotations", "/">>
                                  \o IdText(last'.arg.annotation_id)
                                  \o <<"/", "vote">>,
                          headers |-> client'.headers,
                          params |-> None,
                          json |-> [voteType |-> last'.arg.vote_type]])
             ELSE /\ last'.res.raised = "ValueError"
                  /\ log' = log]_vars

C1_Witness ==
    /\ pc = "lib"
    /\ last.op = "vote_on_annotation"
    /\ last.arg.vote_type = "Upvote"
    /\ last.res.raised = "ValueError"
    /\ log = << >>

\* C2: a leaderboard call with a timeframe outside daily, weekly, monthly,
\* alltime raises ValueError and issues no request; with a timeframe in that
\* set (weekly when left out) it issues one GET to leaderboard whose only
\* query parameter is the timeframe.
C2_LeaderboardValidation ==
    [][(NewCall /\ last'.op = "get_leaderboard") =>
          IF AskedTimeframe(last') \in {"daily", "weekly", "monthly", "alltime"}
             THEN /\ last'.res.raised # "ValueError"
                  /\ log' = Append(log,
                         [verb |-> "GET",
                          url |-> client'.base_url \o ApiPrefix \o <<"leaderboard">>,
                          headers |-> client'.headers,
                          params |-> [timeframe |-> AskedTimeframe(last')],
                          json |-> None])
             ELSE /\ last'.res.raised = "ValueError"
                  /\ log' = log]_vars

C2_Witness ==
    /\ pc = "lib"
    /\ last.op = "get_leaderboard"
    /\ last.arg.timeframe = Arg("yearly")
    /\ last.res.raised = "ValueError"
    /\ log = << >>

\* C3: the command line, started with a subcommand and an API key that
\* resolves to empty, prints the explanation, issues no request and exits
\* with a non-zero status.
C3_MissingKeyExitsNonZero ==
    (/\ pc = "cli_exited"
     /\ ChoicesOk(args)
     /\ args.command # ""
     /\ ~args.flag_api_key.given
     /\ ~args.env_api_key.given)
        => /\ stdout = <<ApiKeyRequired>>
           /\ log = << >>
           /\ exit # 0

\* the workflow has logged a failure of its annotation step
AnnotationFailed ==
    \E i \in 1..Len(stdout) :
        stdout[i][1] = "Error creating or upvoting annotation: "

\* C4: every call that passes parameter validation issues exactly one
\* request, whatever the transport does with it: the number of requests grows
\* by one with each such call, so nothing is retried and nothing is answered
\* from an earlier response.
C4_OneRequestPerCall ==
    [][(NewCall /\ PassesValidation(last')) =>
          /\ Len(last'.res.requests) = 1
          /\ log' = Append(log, last'.res.requests[1])]_vars

C4_Witness ==
    /\ pc = "step5"
    /\ last.n = 5
    /\ Len(log) = 5
    /\ AnnotationFailed

\* a request with this verb to this endpoint has gone out
HasRequest(verb, endpoint) ==
    \E i \in 1..Len(log) :
        /\ log[i].verb = verb
        /\ log[i].url = client.base_url \o ApiPrefix \o endpoint

\* a request to the activity feed has gone out after the annotation request
ActivityAfterAnnotation ==
    \E i, j \in 1..Len(log) :
        /\ i < j
        /\ log[i].verb = "POST"
        /\ log[i].url = client.base_url \o ApiPrefix \o <<"annotations">>
        /\ log[j].verb = "GET"
        /\ log[j].url = client.base_url \o ApiPrefix \o <<"activity-feed">>

\* the workflow is past the named step
InWorkflow == pc \in {"step1", "step2", "step3", "step3b", "step4", "step5",
                      "step6", "returned", "exited"}

\* the call just made did not deliver what its step needs
StepFailed(c) ==
    \/ c.res.raised # ""
    \/ /\ c.op = "create_annotation"
       /\ ~("data" \in c.res.value.keys /\ "id" \in c.res.value.data.keys)

\* C5 as stated: once the annotation step has failed, the activity feed, the
\* leaderboard and the usage request have all gone out when the run ends.
C5_AllThreeStillIssued ==
    (pc = "exited" /\ AnnotationFailed) =>
        /\ HasRequest("GET", <<"activity-feed">>)
        /\ HasRequest("GET", <<"leaderboard">>)
        /\ HasRequest("GET", <<"usage">>)

C5_State ==
    (InWorkflow /\ AnnotationFailed) =>
        /\ pc \notin {"step1", "step2", "step3", "step3b"}
        /\ pc # "step4" => ActivityAfterAnnotation
        /\ pc = "step6" => HasRequest("GET", <<"leaderboard">>)
        /\ pc \in {"returned", "exited"} =>
              \/ last.op = "get_activity_feed" /\ ret = RetInt(1)
              \/ /\ HasRequest("GET", <<"leaderboard">>)
                 /\ \/ last.op = "get_leaderboard" /\ ret = RetInt(1)
                    \/ HasRequest("GET", <<"usage">>)

C5_Step ==
    (InWorkflow /\ NewCall /\ StepFailed(last')) =>
        IF last'.op \in {"create_annotation", "vote_on_annotation"}
           THEN /\ pc' = "step4"
                /\ ret' = ret
                /\ stdout'[Len(stdout')][1] = "Error creating or upvoting annotation: "
                /\ last'.res.raised # "" =>
                      stdout'[Len(stdout')] =
                         <<"Error creating or upvoting annotation: ">> \o last'.res.msg
           ELSE /\ pc' = "returned"
                /\ ret' = RetInt(1)
                /\ AnnotationFailed' = AnnotationFailed

\* C5: in the example workflow, once get page and list symbols have
\* succeeded, a failure of the create-annotation request or of the vote
\* request (a response lacking data.id included) is caught and logged inline
\* and the activity-feed request is issued next; the leaderboard and the
\* usage request follow unless a request after the annotation step fails.
\* A failure of any other step ends the workflow with result 1.
C5_AnnotationFailureTolerated == []C5_State /\ [][C5_Step]_vars

C5_Witness ==
    /\ pc = "exited"
    /\ AnnotationFailed
    /\ last.op = "get_usage"
    /\ HasRequest("GET", <<"usage">>)
    /\ exit = 0

\* C6: in the client's command line, a subcommand that raised an error made
\* the process print the error and exit with a non-zero status; a subcommand
\* that succeeded made it print the result and exit with status 0.
C6_CliExitStatus ==
    (pc = "cli_exited" /\ last.n = 1) =>
        /\ (last.outcome.kind = "failure" \/ last.outcome.status >= 400)
              => last.res.raised # ""
        /\ IF last.res.raised # ""
              THEN /\ exit # 0
                   /\ stdout[Len(stdout)] = <<"Error: ">> \o last.res.msg
              ELSE /\ exit = 0
                   /\ stdout = <<dumps(last.res.value)>>

C6_Witness ==
    /\ pc = "cli_exited"
    /\ last.n = 1
    /\ last.outcome.status = 404
    /\ exit = 1

\* C7: the request helper called with a method that is neither GET nor POST
\* in any letter case raises ValueError, issues no request and prints
\* nothing: the error does not pass through the transport-error handler.
\* GET and POST are accepted in any letter case.
C7_UnsupportedMethod ==
    [][(NewCall /\ last'.op = "_make_request") =>
          IF last'.arg.method \in {<<"g", "e", "t">>, <<"P", "o", "s", "t">>}
             THEN /\ last'.res.raised # "ValueError"
                  /\ Len(log') = Len(log) + 1
                  /\ log'[Len(log')].verb =
                        (IF last'.arg.method = <<"g", "e", "t">> THEN "GET" ELSE "POST")
             ELSE /\ last'.res.raised = "ValueError"
                  /\ last'.res.msg = <<"Unsupported HTTP method: ">> \o last'.arg.method
                  /\ last'.res.printed = << >>
                  /\ log' = log]_vars

C7_Witness ==
    /\ last.op = "_make_request"
    /\ last.arg.method = <<"P", "U", "T">>
    /\ last.res.raised = "ValueError"
    /\ log = << >>

\* a URL of the form <base>/api/external/<endpoint>, base being the given
\* base URL without its trailing slashes, with single slashes at the join
UrlFormOk(url, given) ==
    \E k \in 0..Len(given) :
        /\ \A i \in (k + 1)..Len(given) : given[i] = "/"
        /\ k > 0 => given[k] # "/"
        /\ Len(url) > k + 5
        /\ SubSeq(url, 1, k) = SubSeq(given, 1, k)
        /\ SubSeq(url, k + 1, k + 5) = ApiPrefix
        /\ url[k + 6] # "/"

\* C8: a client constructed with base URL b and a client constructed with b
\* followed by a slash issue, for the same call, requests to the same URL,
\* which has the form <base>/api/external/<endpoint> without a doubled slash
\* at the join.
C8_TrailingSlash ==
    (pc = "lib" /\ last.n > 0) =>
        LET twin == VoynichApiClient(args.base_url \o <<"/">>, args.api_key)
            other == Invoke(twin, last.op, last.arg, last.outcome).requests
        IN /\ Len(other) = Len(last.res.requests)
           /\ \A i \in 1..Len(other) : other[i].url = last.res.requests[i].url
           /\ \A i \in 1..Len(log) : UrlFormOk(log[i].url, args.base_url)

C8_Witness ==
    /\ pc = "lib"
    /\ args.base_url = DefaultBaseUrl \o <<"/">>
    /\ last.op = "get_usage"
    /\ Len(log) = 1
    /\ log[1].url = DefaultBaseUrl \o ApiPrefix \o <<"usage">>

\* the call got a response with this status
Answered(c, lo, hi) ==
    c.n > 0 /\ c.outcome.kind = "response" /\ lo <= c.outcome.status
    /\ c.outcome.status <= hi

\* the digits of the statuses that occur
StatusText(n) ==
    CASE n = 200 -> <<"2", "0", "0">>
      [] n = 201 -> <<"2", "0", "1">>
      [] n = 300 -> <<"3", "0", "0">>
      [] n = 404 -> <<"4", "0", "4">>
      [] n = 500 -> <<"5", "0", "0">>

\* C9 as stated: on a status outside 200..299 the method returns no value and
\* raises an error whose message includes the parsed JSON error body when
\* the body parses, and otherwise the status code and the raw text.
C9_ErrorCarriesBody ==
    (Answered(last, 0, 199) \/ Answered(last, 300, 999)) =>
        /\ last.res.raised # ""
        /\ IF IsJsonText(last.outcome.text)
              THEN Includes(last.res.msg, ParseJson(last.outcome.text).error)
              ELSE /\ Includes(last.res.msg, last.outcome.text)
                   /\ \E k \in 1..Len(last.res.msg) :
                         SubSeq(last.res.msg, k, k + 2) = StatusText(last.outcome.status)

\* C9: on a 4xx or 5xx status the method returns no value: it prints the
\* parsed JSON error body when the body parses (the text "not found" for a
\* 404 with body {"error": "not found"}), and otherwise the status code and
\* the raw response text, and raises the transport's HTTPError, whose
\* message names the status code, the reason phrase and the URL and carries
\* nothing of the body.
C9_ErrorBodyPrinted ==
    Answered(last, 400, 599) =>
        /\ last.res.raised = "HTTPError"
        /\ last.res.value = NoJson
        /\ SubSeq(last.res.msg, 1, 3) = StatusText(last.outcome.status)
        /\ Includes(last.res.msg, last.outcome.reason)
        /\ ~Includes(last.res.msg, last.outcome.text)
        /\ ~Includes(last.res.msg, "not found")
        /\ Len(last.res.printed) >= 2
        /\ last.res.printed[1] = <<"API request error: ">> \o last.res.msg
        /\ IF last.outcome.text = "{error:not found}"
              THEN /\ last.res.printed[2][1] = "Error details: "
                   /\ Includes(last.res.printed[2], "not found")
              ELSE /\ last.res.printed[2] =
                         <<"Status code: ">> \o StatusText(last.outcome.status)
                   /\ Len(last.res.printed) = 3
                   /\ last.res.printed[3] = <<"Response body: ", last.outcome.text>>

C9_Witness ==
    /\ pc = "lib"
    /\ last.op = "get_page"
    /\ last.arg.page_id = 999
    /\ last.outcome.status = 404
    /\ last.res.raised = "HTTPError"
    /\ Len(last.res.printed) = 2
    /\ Includes(last.res.printed[2], "not found")

\* the value a list_pages call asks for
Asked(a, d) == IF a.given THEN a.v ELSE d

\* C10: list_pages issues one GET to pages whose query parameters are
\* exactly offset and limit with the caller's values (0 and 20 when left
\* out), and the request has no JSON body.
C10_ListPagesParams ==
    [][(NewCall /\ last'.op = "list_pages") =>
          log' = Append(log,
                    [verb |-> "GET",
                     url |-> client'.base_url \o ApiPrefix \o <<"pages">>,
                     headers |-> client'.headers,
                     params |-> [offset |-> Asked(last'.arg.offset, 0),
                                 limit |-> Asked(last'.arg.limit, 20)],
                     json |-> None])]_vars

C10_Witness ==
    /\ pc = "lib"
    /\ last.op = "list_pages"
    /\ last.arg = [offset |-> Arg(10), limit |-> Arg(5)]
    /\ Len(log) = 1
    /\ log[1].params = [offset |-> 10, limit |-> 5]
    /\ log[1].json = None

\* the members every symbol body has
SymbolFields == {"pageId", "x", "y", "width", "height"}

\* C11 as stated: create_symbol issues one POST to symbols whose body has
\* pageId, x, y, width and height with the caller's values, has the member
\* category exactly when the caller passed a category other than None (the
\* empty string included) and the member metadata exactly when the caller
\* passed metadata other than None (the empty dict included), each with the
\* caller's value, and has no other member.
C11_OptionalFieldsWhenSet ==
    (last.op = "create_symbol") =>
        /\ Len(last.res.requests) = 1
        /\ last.res.requests[1].verb = "POST"
        /\ last.res.requests[1].url = client.base_url \o ApiPrefix \o <<"symbols">>
        /\ LET body == last.res.requests[1].json
           IN /\ SymbolFields \subseteq DOMAIN body
              /\ DOMAIN body \subseteq SymbolFields \cup {"category", "metadata"}
              /\ body.pageId = last.arg.page_id
              /\ body.x = last.arg.x
              /\ body.y = last.arg.y
              /\ body.width = last.arg.width
              /\ body.height = last.arg.height
              /\ ("category" \in DOMAIN body) <=> ~last.arg.category.none
              /\ ("category" \in DOMAIN body) => body.category = last.arg.category.s
              /\ ("metadata" \in DOMAIN body) <=> ~last.arg.metadata.none
              /\ ("metadata" \in DOMAIN body) => body.metadata = last.arg.metadata.d

\* the place of a request in the order of the workflow, 0 if it has none
WorkflowRank(req) ==
    LET to(endpoint) == req.url = client.base_url \o ApiPrefix \o endpoint
    IN CASE req.verb = "GET" /\ to(<<"pages", "/", "1">>) -> 1
         [] req.verb = "GET" /\ \E id \in {1, 42} :
                to(<<"symbols", "/", "page", "/">> \o IdText(id)) -> 2
         [] req.verb = "POST" /\ to(<<"annotations">>) -> 3
         [] req.verb = "POST" /\ \E id \in {1, 42} :
                to(<<"annotations", "/">> \o IdText(id) \o <<"/", "vote">>) -> 4
         [] req.verb = "GET" /\ to(<<"activity-feed">>) -> 5
         [] req.verb = "GET" /\ to(<<"leaderboard">>) -> 6
         [] req.verb = "GET" /\ to(<<"usage">>) -> 7
         [] OTHER -> 0

\* the steps whose failure ends the workflow
AbortingSteps == {"get_page", "list_symbols", "get_activity_feed",
                  "get_leaderboard", "get_usage"}

C12_State ==
    InWorkflow =>
        /\ \A i \in 1..Len(log) : WorkflowRank(log[i]) > 0
        /\ \A i, j \in 1..Len(log) :
              i < j => WorkflowRank(log[i]) < WorkflowRank(log[j])
        /\ \A j \in 1..Len(log) :
              WorkflowRank(log[j]) = 4 => j > 1 /\ WorkflowRank(log[j - 1]) = 3
        /\ (pc \in {"returned", "exited"} /\ last.op \in AbortingSteps
              /\ last.res.raised # "") => ret = RetInt(1)
        /\ (pc = "exited" /\ ret = RetInt(1)) => exit = 1

C12_Step ==
    /\ (InWorkflow /\ NewCall /\ last'.op = "vote_on_annotation") =>
          /\ last.op = "create_annotation"
          /\ last.res.raised = ""
          /\ "data" \in last.res.value.keys
          /\ "id" \in last.res.value.data.keys
          /\ log' = Append(log,
                 [verb |-> "POST",
                  url |-> client.base_url \o ApiPrefix \o <<"annotations", "/">>
                          \o IdText(last.res.value.data.id) \o <<"/", "vote">>,
                  headers |-> client.headers,
                  params |-> None,
                  json |-> [voteType |-> "upvote"]])
    /\ (InWorkflow /\ NewCall /\ last'.op \in AbortingSteps
          /\ last'.res.raised # "") =>
          /\ pc' = "returned"
          /\ ret' = RetInt(1)
    /\ (InWorkflow /\ pc \in {"returned", "exited"}) => log' = log /\ ret' = ret

\* C12: in every run of the example workflow the requests issued are, in
\* this order and each at most once, get page, list symbols, create
\* annotation, vote, activity feed, leaderboard, usage; the vote request
\* directly follows a create-annotation call that returned a response with
\* data.id and goes to annotations/{that id}/vote; and when the get page,
\* list symbols, activity feed, leaderboard or usage call raises, run_example
\* returns 1, no further request is issued and the process exits with
\* status 1.
C12_WorkflowOrder == []C12_State /\ [][C12_Step]_vars

C12_Witness ==
    /\ pc = "exited"
    /\ exit = 0
    /\ Len(log) = 7
    /\ annotation_id = 42
    /\ WorkflowRank(log[3]) = 3
    /\ log[4].url = client.base_url \o ApiPrefix
                    \o <<"annotations", "/", "4", "2", "/", "vote">>
    /\ WorkflowRank(log[7]) = 7

====
